---------------------------- MODULE Spec2Model ----------------------------
(***************************************************************************)
(* Model of the Todo API of src/backend/main.py: the two tables (User,     *)
(* Todo), the authentication dependency and the HTTP handlers.             *)
(*                                                                         *)
(* Spec runs the requests one at a time: every handler is one action, from *)
(* the authentication to the response.                                     *)
(*                                                                         *)
(* SpecConc lets requests overlap.  Every request runs in a thread of the  *)
(* pool with a Session of its own (get_session).  A handler that reads and *)
(* then writes (register, update_todo, delete_todo) may be preempted       *)
(* between the read (the SELECT or session.get and the checks on its       *)
(* result) and the commit (the flush of the pending INSERT, UPDATE or      *)
(* DELETE, the COMMIT and the trailing refresh); any number of requests of *)
(* other threads run from start to end in between.  A read holds no lock   *)
(* and no snapshot once its cursor is exhausted.                           *)
(*                                                                         *)
(* An Optional value is a sequence: << >> is None and <<v>> is v.          *)
(***************************************************************************)
EXTENDS Integers, Sequences, FiniteSets, TLC

\* ------------------------------------------------------------- bounds

\* Largest Todo.id the store hands out when requests run one at a time.
MaxTodoId == 2

\* Largest Todo.id the store hands out when two requests run at a time.
MaxConcTodoId == 1

\* The worker threads whose request may be preempted (see NextConc).
Workers == {"w1"}

\* The usernames clients ask for.
Names == {"ann", "bob"}

\* The values uuid4().hex returns, in the order it comes up with new ones.
KeySeq == <<"k1", "k2">>

Keys == {KeySeq[i] : i \in DOMAIN KeySeq}

\* The titles clients send; the empty string is accepted (no server check).
Titles == {"", "a"}

\* The X-API-Key header of a request: absent, empty, or a key.
Headers == {<< >>, <<"">>} \cup {<<k>> : k \in Keys}

OptTitles == {<< >>} \cup {<<t>> : t \in Titles}

OptBools == {<< >>} \cup {<<b>> : b \in BOOLEAN}

\* TodoUpdate: title and done, each Optional with default None.
TodoUpdate == [title : OptTitles, done : OptBools]

NoUpdate == [title |-> << >>, done |-> << >>]

\* ------------------------------------------------------------- state

VARIABLES
    users,      \* table user: a sequence, users[i] is the row with id i
    todos,      \* table todo: a function from the ids in use to the rows
    workers,    \* what each worker's request holds between read and commit
    resp        \* the last HTTP response sent

vars == <<users, todos, workers, resp>>

Idle == [pc |-> "idle", key |-> << >>, user |-> 0, id |-> 0, req |-> NoUpdate,
         snap |-> NoUpdate, username |-> ""]

NoStats == [total |-> 0, done |-> 0, not_done |-> 0]

NoResp == [op |-> "none", status |-> 0, detail |-> "", key |-> << >>,
           user |-> 0, id |-> 0, req |-> NoUpdate, username |-> "",
           rows |-> {}, stats |-> NoStats, account |-> << >>]

\* An HTTP response: the fields of NoResp, with those given in r set.
Response(r) == [f \in DOMAIN NoResp |-> IF f \in DOMAIN r THEN r[f] ELSE NoResp[f]]

\* ------------------------------------------------------------- tables

\* class User: the columns other than id.
User(username, api_key) == [username |-> username, api_key |-> api_key]

\* class Todo: the columns other than id; done defaults to False.
Todo(title, user_id) == [title |-> title, done |-> FALSE, user_id |-> user_id]

\* A Todo as a response body carries it: the row with its id.
TodoOut(id) == [id |-> id, title |-> todos[id].title, done |-> todos[id].done,
                user_id |-> todos[id].user_id]

Max(S) == CHOOSE x \in S : \A y \in S : y <= x

\* The number of rows plus one.
NextTodoIdCount == Cardinality(DOMAIN todos) + 1

\* Todo.id is INTEGER PRIMARY KEY without AUTOINCREMENT: SQLite gives a new
\* row the largest id in the table plus one (1 in an empty table), so the id
\* of a deleted row that was the largest is handed out again.
NextTodoId == Max(DOMAIN todos \cup {0}) + 1

\* unique=True on User.api_key only: the constraint on username left out.
UniqueOkKeyOnly(username, api_key) ==
    \A i \in DOMAIN users : users[i].api_key # api_key

\* unique=True on User.username and on User.api_key: whether the INSERT of
\* such a row passes both constraints (IntegrityError otherwise).
UniqueOk(username, api_key) ==
    \A i \in DOMAIN users :
        users[i].username # username /\ users[i].api_key # api_key

\* ------------------------------------------------------- authentication

\* Only an absent header counts as missing.
MissingNoneOnly(key) == key = << >>

\* "if not x_api_key": None and the empty string are both falsy.
Missing(key) == key \in {<< >>, <<"">>}

\* select(User).where(User.api_key == x_api_key)
UserByKey(key) == {i \in DOMAIN users : <<users[i].api_key>> = key}

\* get_current_user returns a User (raises no HTTPException).
Authenticated(key) == ~Missing(key) /\ UserByKey(key) # {}

\* .first() of the select: the id of the User get_current_user returns.
CurrentUser(key) == CHOOSE i \in UserByKey(key) : TRUE

\* The HTTPException get_current_user raises, as the response of handler op.
Unauthorized(op, key) ==
    Response([op |-> op, status |-> 401, key |-> key,
              detail |-> IF Missing(key) THEN "Missing API key"
                         ELSE "Invalid API key"])

\* A protected request stopped by get_current_user: nothing else happens.
Reject(op, key) ==
    /\ ~Authenticated(key)
    /\ resp' = Unauthorized(op, key)
    /\ UNCHANGED <<users, todos, workers>>

\* ---------------------------------------------------------- registration

\* The existence check finds nothing.
UserByNameNone(username) == {}

\* select(User).where(User.username == payload.username)
UserByName(username) == {i \in DOMAIN users : users[i].username = username}

\* "if existing: return UserPublic(...)": the stored row, answered with 200.
ReturnExisting(username) ==
    /\ UserByName(username) # {}
    /\ resp' = Response([op |-> "register", status |-> 200, username |-> username,
                 account |-> LET i == CHOOSE i \in UserByName(username) : TRUE
                             IN  <<users[i].username, users[i].api_key>>])
    /\ UNCHANGED <<users, todos, workers>>

\* session.add(user); session.commit(); session.refresh(user): the row gets
\* the next id.  A row that breaks a unique constraint is refused by the
\* store, and the IntegrityError, which nothing handles, is answered 500.
InsertUser(username, api_key) ==
    /\ users' = IF UniqueOk(username, api_key)
                THEN Append(users, User(username, api_key)) ELSE users
    /\ resp' = IF UniqueOk(username, api_key)
               THEN Response([op |-> "register", status |-> 200,
                              username |-> username, user |-> Len(users) + 1,
                              account |-> <<username, api_key>>])
               ELSE Response([op |-> "register", status |-> 500,
                              username |-> username, detail |-> "IntegrityError"])
    /\ UNCHANGED todos

\* uuid4().hex: the next value never returned before or, however unlikely,
\* the api_key of a row of the table.
Uuid4 ==
    {KeySeq[j] : j \in {i \in DOMAIN KeySeq :
        \A m \in 1..(i - 1) : \E u \in DOMAIN users : users[u].api_key = KeySeq[m]}}

\* POST /register, the whole handler; api_key is what uuid4().hex returns.
register(username, api_key) ==
    \/ ReturnExisting(username)
    \/ /\ UserByName(username) = {}
       /\ InsertUser(username, api_key)
       /\ UNCHANGED workers

\* POST /register on worker w, up to the existence check.
register_check(w, username) ==
    /\ workers[w].pc = "idle"
    /\ \/ ReturnExisting(username)
       \/ /\ UserByName(username) = {}
          /\ workers' = [workers EXCEPT ![w] =
                           [Idle EXCEPT !.pc = "register", !.username = username]]
          /\ UNCHANGED <<users, todos, resp>>

\* POST /register on worker w, from uuid4() on.
register_commit(w, api_key) ==
    /\ workers[w].pc = "register"
    /\ workers' = [workers EXCEPT ![w] = Idle]
    /\ InsertUser(workers[w].username, api_key)

\* ------------------------------------------------------------ GET /todos

\* Every Todo, whoever owns it.
ListRowsUnfiltered(user_id) == {TodoOut(id) : id \in DOMAIN todos}

\* session.exec(select(Todo).where(Todo.user_id == current_user.id)).all()
ListRows(user_id) ==
    {TodoOut(id) : id \in {i \in DOMAIN todos : todos[i].user_id = user_id}}

\* GET /todos
list_todos(key) ==
    \/ Reject("list", key)
    \/ /\ Authenticated(key)
       /\ resp' = Response([op |-> "list", status |-> 200, key |-> key,
                            user |-> CurrentUser(key),
                            rows |-> ListRows(CurrentUser(key))])
       /\ UNCHANGED <<users, todos, workers>>

\* ----------------------------------------------------------- POST /todos

\* session.add(todo); session.commit(): the table with the row inserted
\* under the next id.
InsertTodo(row) ==
    [i \in DOMAIN todos \cup {NextTodoId} |-> IF i = NextTodoId THEN row ELSE todos[i]]

\* POST /todos: the INSERT, its commit, and the refresh that reads the row
\* back for the response.
create_todo(key, title) ==
    \/ Reject("create", key)
    \/ /\ Authenticated(key)
       /\ todos' = InsertTodo(Todo(title, CurrentUser(key)))
       /\ resp' = Response([op |-> "create", status |-> 201, key |-> key,
                    user |-> CurrentUser(key),
                    id |-> NextTodoId,
                    req |-> [title |-> <<title>>, done |-> << >>],
                    rows |-> {[id |-> NextTodoId,
                               title |-> todos'[NextTodoId].title,
                               done |-> todos'[NextTodoId].done,
                               user_id |-> todos'[NextTodoId].user_id]}])
       /\ UNCHANGED <<users, workers>>

\* ------------------------------------------------ PUT /todos/{todo_id}

\* Only a missing row is treated as not found.
NotFoundMissingOnly(todo_id, user_id) == todo_id \notin DOMAIN todos

\* "if not todo or todo.user_id != current_user.id" after session.get.
NotFound(todo_id, user_id) ==
    IF todo_id \notin DOMAIN todos THEN TRUE ELSE todos[todo_id].user_id # user_id

\* raise HTTPException(404, "Todo not found")
RaiseNotFound(op, key, todo_id) ==
    /\ Authenticated(key)
    /\ NotFound(todo_id, CurrentUser(key))
    /\ resp' = Response([op |-> op, status |-> 404, detail |-> "Todo not found",
                         key |-> key, user |-> CurrentUser(key), id |-> todo_id])
    /\ UNCHANGED <<users, todos, workers>>

\* What the request holds once session.get has loaded the row: the caller,
\* the payload, and the column values the Session loaded.
Loaded(key, todo_id, payload) ==
    [Idle EXCEPT !.pc = "update", !.key = key, !.user = CurrentUser(key),
                 !.id = todo_id, !.req = payload,
                 !.snap = [title |-> <<todos[todo_id].title>>,
                           done |-> <<todos[todo_id].done>>]]

\* "if payload.title is not None: todo.title = payload.title", the same for
\* done, and the flush of session.commit(): the UPDATE sets the columns
\* whose value now differs from the one session.get loaded, and no others
\* (the unit of work emits nothing for an attribute with no net change).
Changed(snap, payload) ==
    [title |-> IF payload.title # << >> /\ payload.title # snap.title
               THEN payload.title ELSE << >>,
     done  |-> IF payload.done # << >> /\ payload.done # snap.done
               THEN payload.done ELSE << >>]

\* UPDATE todo SET <the columns of params> on one row.
SetColumns(row, params) ==
    [row EXCEPT !.title = IF params.title # << >> THEN params.title[1] ELSE @,
                !.done  = IF params.done # << >> THEN params.done[1] ELSE @]

\* The flush writes the object back whether or not its row is still there.
StoreAfterUpdateUpsert(r) ==
    LET row == [title |-> r.snap.title[1], done |-> r.snap.done[1], user_id |-> r.user]
    IN  [i \in DOMAIN todos \cup {r.id} |->
            SetColumns(IF i \in DOMAIN todos THEN todos[i] ELSE row,
                       IF i = r.id THEN Changed(r.snap, r.req) ELSE NoUpdate)]

\* The table after "UPDATE todo SET ... WHERE todo.id = ?" of request r: the
\* row that has the id now is the one written; with none, nothing is.
StoreAfterUpdate(r) ==
    IF r.id \in DOMAIN todos
    THEN [todos EXCEPT ![r.id] = SetColumns(@, Changed(r.snap, r.req))]
    ELSE todos

\* session.add(todo); session.commit(); session.refresh(todo); return todo.
\* With the row gone the UPDATE matches no row (StaleDataError) or, with
\* nothing to write, the refresh finds none (InvalidRequestError); nothing
\* handles either, so the answer is 500.
CommitUpdate(r) ==
    /\ todos' = StoreAfterUpdate(r)
    /\ resp' = IF r.id \in DOMAIN todos'
               THEN Response([op |-> "update", status |-> 200, key |-> r.key,
                              user |-> r.user, id |-> r.id, req |-> r.req,
                              rows |-> {[id |-> r.id, title |-> todos'[r.id].title,
                                         done |-> todos'[r.id].done,
                                         user_id |-> todos'[r.id].user_id]}])
               ELSE Response([op |-> "update", status |-> 500, key |-> r.key,
                              user |-> r.user, id |-> r.id, req |-> r.req,
                              detail |-> IF Changed(r.snap, r.req) = NoUpdate
                                         THEN "InvalidRequestError"
                                         ELSE "StaleDataError"])
    /\ UNCHANGED users

\* PUT /todos/{todo_id}, the whole handler.
update_todo(key, todo_id, payload) ==
    \/ Reject("update", key)
    \/ RaiseNotFound("update", key, todo_id)
    \/ /\ Authenticated(key)
       /\ ~NotFound(todo_id, CurrentUser(key))
       /\ CommitUpdate(Loaded(key, todo_id, payload))
       /\ UNCHANGED workers

\* PUT /todos/{todo_id} on worker w, up to the ownership check.
update_todo_get(w, key, todo_id, payload) ==
    /\ workers[w].pc = "idle"
    /\ \/ Reject("update", key)
       \/ RaiseNotFound("update", key, todo_id)
       \/ /\ Authenticated(key)
          /\ ~NotFound(todo_id, CurrentUser(key))
          /\ workers' = [workers EXCEPT ![w] = Loaded(key, todo_id, payload)]
          /\ UNCHANGED <<users, todos, resp>>

\* PUT /todos/{todo_id} on worker w, from the assignments on.
update_todo_commit(w) ==
    /\ workers[w].pc = "update"
    /\ workers' = [workers EXCEPT ![w] = Idle]
    /\ CommitUpdate(workers[w])

\* --------------------------------------------- DELETE /todos/{todo_id}

\* What the request holds once session.get has found the row to delete.
ToDelete(key, todo_id) ==
    [Idle EXCEPT !.pc = "delete", !.key = key, !.user = CurrentUser(key),
                 !.id = todo_id]

\* The table after "DELETE FROM todo WHERE todo.id = ?".
StoreAfterDelete(todo_id) == [i \in DOMAIN todos \ {todo_id} |-> todos[i]]

\* session.delete(todo); session.commit(); return.  A DELETE that matches
\* no row is only warned about, so the answer is 204 all the same.
CommitDelete(r) ==
    /\ todos' = StoreAfterDelete(r.id)
    /\ resp' = Response([op |-> "delete", status |-> 204, key |-> r.key,
                         user |-> r.user, id |-> r.id])
    /\ UNCHANGED users

\* DELETE /todos/{todo_id}, the whole handler.
delete_todo(key, todo_id) ==
    \/ Reject("delete", key)
    \/ RaiseNotFound("delete", key, todo_id)
    \/ /\ Authenticated(key)
       /\ ~NotFound(todo_id, CurrentUser(key))
       /\ CommitDelete(ToDelete(key, todo_id))
       /\ UNCHANGED workers

\* DELETE /todos/{todo_id} on worker w, up to the ownership check.
delete_todo_get(w, key, todo_id) ==
    /\ workers[w].pc = "idle"
    /\ \/ Reject("delete", key)
       \/ RaiseNotFound("delete", key, todo_id)
       \/ /\ Authenticated(key)
          /\ ~NotFound(todo_id, CurrentUser(key))
          /\ workers' = [workers EXCEPT ![w] = ToDelete(key, todo_id)]
          /\ UNCHANGED <<users, todos, resp>>

\* DELETE /todos/{todo_id} on worker w, from session.delete on.
delete_todo_commit(w) ==
    /\ workers[w].pc = "delete"
    /\ workers' = [workers EXCEPT ![w] = Idle]
    /\ CommitDelete(workers[w])

\* ------------------------------------------------------ stats and export

\* done is the number of rows.
compute_stats_count_all(user_id) ==
    LET mine == {id \in DOMAIN todos : todos[id].user_id = user_id}
    IN  [total |-> Cardinality(mine), done |-> Cardinality(mine), not_done |-> 0]

\* _compute_stats_for_user: the rows of the user; zeros for none, else
\* total = len(df), done = the sum of the done column, not_done = total - done.
compute_stats_for_user(user_id) ==
    LET mine  == {id \in DOMAIN todos : todos[id].user_id = user_id}
        total == Cardinality(mine)
        done  == Cardinality({id \in mine : todos[id].done})
    IN  IF mine = {}
        THEN [total |-> 0, done |-> 0, not_done |-> 0]
        ELSE [total |-> total, done |-> done, not_done |-> total - done]

\* GET /stats
stats(key) ==
    \/ Reject("stats", key)
    \/ /\ Authenticated(key)
       /\ resp' = Response([op |-> "stats", status |-> 200, key |-> key,
                            user |-> CurrentUser(key),
                            stats |-> compute_stats_for_user(CurrentUser(key))])
       /\ UNCHANGED <<users, todos, workers>>

\* GET /stats-pandas
stats_pandas(key) ==
    \/ Reject("stats_pandas", key)
    \/ /\ Authenticated(key)
       /\ resp' = Response([op |-> "stats_pandas", status |-> 200, key |-> key,
                            user |-> CurrentUser(key),
                            stats |-> compute_stats_for_user(CurrentUser(key))])
       /\ UNCHANGED <<users, todos, workers>>

\* The data rows of the CSV document: id, title, done of each Todo of the
\* user (the header row id,title,done comes first and is always there).
CsvRows(user_id) ==
    {[id |-> id, title |-> todos[id].title, done |-> todos[id].done] :
        id \in {i \in DOMAIN todos : todos[i].user_id = user_id}}

\* GET /todos/export
export_todos_csv(key) ==
    \/ Reject("export", key)
    \/ /\ Authenticated(key)
       /\ resp' = Response([op |-> "export", status |-> 200, key |-> key,
                            user |-> CurrentUser(key), detail |-> "id,title,done",
                            rows |-> CsvRows(CurrentUser(key))])
       /\ UNCHANGED <<users, todos, workers>>

\* ------------------------------------------------------- specifications

\* create_db_and_tables on a new database: both tables empty, no request.
Init ==
    /\ users = << >>
    /\ todos = << >>
    /\ workers = [w \in Workers |-> Idle]
    /\ resp = NoResp

\* The request bodies tried with a request: all of them when the request
\* gets as far as reading its body, one when it is refused before (the body
\* plays no part in a refusal).
TitlesOf(key) == IF Authenticated(key) THEN Titles ELSE {"a"}

PayloadsOf(key, todo_id) ==
    IF Authenticated(key) /\ todo_id \in DOMAIN todos /\ ~NotFound(todo_id, CurrentUser(key))
    THEN TodoUpdate ELSE {[title |-> << >>, done |-> <<TRUE>>]}

\* One request at a time.
Next ==
    \/ \E username \in Names, api_key \in Keys :
          api_key \in Uuid4 /\ register(username, api_key)
    \/ \E key \in Headers : list_todos(key)
    \/ \E key \in Headers, title \in Titles :
          /\ title \in TitlesOf(key)
          /\ NextTodoId <= MaxTodoId
          /\ create_todo(key, title)
    \/ \E key \in Headers, todo_id \in 1..MaxTodoId, payload \in TodoUpdate :
          payload \in PayloadsOf(key, todo_id) /\ update_todo(key, todo_id, payload)
    \/ \E key \in Headers, todo_id \in 1..MaxTodoId : delete_todo(key, todo_id)
    \/ \E key \in Headers : stats(key)
    \/ \E key \in Headers : stats_pandas(key)
    \/ \E key \in Headers : export_todos_csv(key)

Spec == Init /\ [][Next]_vars

\* The titles and the request bodies of SpecConc: one title, and the
\* updates that set done.
ConcTitles == {"a"}

ConcUpdates == {[title |-> << >>, done |-> <<b>>] : b \in BOOLEAN}

\* Requests that overlap.  The request of a worker of Workers may be
\* preempted between its read and its commit; the requests of the other
\* threads run meanwhile, each as a whole handler.  A read changes nothing,
\* so two overlapping requests always run in this order up to which of the
\* two is called the preempted one: both reads, then one commit, then the
\* other.
NextConc ==
    \/ \E username \in Names, api_key \in Keys :
          api_key \in Uuid4 /\ register(username, api_key)
    \/ \E w \in Workers, username \in Names : register_check(w, username)
    \/ \E w \in Workers, api_key \in Keys :
          api_key \in Uuid4 /\ register_commit(w, api_key)
    \/ \E key \in Headers, title \in ConcTitles :
          /\ NextTodoId <= MaxConcTodoId
          /\ create_todo(key, title)
    \/ \E key \in Headers, todo_id \in 1..MaxConcTodoId, payload \in ConcUpdates :
          /\ payload \in PayloadsOf(key, todo_id)
          /\ update_todo(key, todo_id, payload)
    \/ \E w \in Workers, key \in Headers, todo_id \in 1..MaxConcTodoId,
          payload \in ConcUpdates :
          /\ payload \in PayloadsOf(key, todo_id)
          /\ update_todo_get(w, key, todo_id, payload)
    \/ \E w \in Workers : update_todo_commit(w)
    \/ \E key \in Headers, todo_id \in 1..MaxConcTodoId : delete_todo(key, todo_id)
    \/ \E w \in Workers, key \in Headers, todo_id \in 1..MaxConcTodoId :
          delete_todo_get(w, key, todo_id)
    \/ \E w \in Workers : delete_todo_commit(w)

SpecConc == Init /\ [][NextConc]_vars

\* ----------------------------------------------------------- properties

\* The ids of the Todos whose user_id is user_id.
OwnedBy(user_id) == {id \in DOMAIN todos : todos[id].user_id = user_id}

\* The operations behind get_current_user.
Protected == {"list", "create", "update", "delete", "stats", "stats_pandas", "export"}

\* C1: the answer to a list request of account A holds exactly the Todos
\* whose owner is A, each as stored, whatever requests came before; and
\* right after the registration that created A, A's list is empty.
C1_ListIsExactlyOwn ==
    /\ (resp.op = "list" /\ resp.status = 200) =>
          /\ resp.user \in DOMAIN users
          /\ <<users[resp.user].api_key>> = resp.key
          /\ {r.id : r \in resp.rows} = OwnedBy(resp.user)
          /\ \A r \in resp.rows :
                r = [id |-> r.id, title |-> todos[r.id].title,
                     done |-> todos[r.id].done, user_id |-> resp.user]
    /\ (resp.op = "register" /\ resp.status = 200 /\ resp.user # 0) =>
          /\ resp.user = Len(users)
          /\ ListRows(resp.user) = {}

\* A list answered with the caller's Todo while another account has one too.
C1_Witness ==
    /\ resp.op = "list" /\ resp.status = 200
    /\ resp.rows # {}
    /\ \E id \in DOMAIN todos : todos[id].user_id # resp.user

\* C2: an update or delete request of an authenticated caller for an id that
\* is in no row, or in a row of another account, is answered 404 "Todo not
\* found", the same in both cases, and changes no row of either table.
C2_NotFoundAlike ==
    [][ ( /\ resp'.op \in {"update", "delete"}
          /\ resp'.status # 401
          /\ IF resp'.id \in DOMAIN todos
             THEN todos[resp'.id].user_id # resp'.user ELSE TRUE )
        => ( /\ resp' = Response([op |-> resp'.op, status |-> 404,
                                  detail |-> "Todo not found", key |-> resp'.key,
                                  user |-> resp'.user, id |-> resp'.id])
             /\ todos' = todos
             /\ users' = users ) ]_vars

\* A 404 for the id of a Todo that exists and belongs to another account.
C2_Witness ==
    /\ resp.op \in {"update", "delete"} /\ resp.status = 404
    /\ resp.id \in DOMAIN todos
    /\ todos[resp.id].user_id # resp.user

\* C3 as stated: a protected request is answered 401 "Missing API key" when
\* it carries no header, 401 "Invalid API key" when it carries one that is
\* the api_key of no account, and runs as the account whose api_key it is
\* otherwise.
C3_AsStated ==
    resp.op \in Protected =>
       /\ resp.key = << >> =>
             resp.status = 401 /\ resp.detail = "Missing API key"
       /\ (resp.key # << >> /\ \A i \in DOMAIN users : <<users[i].api_key>> # resp.key) =>
             resp.status = 401 /\ resp.detail = "Invalid API key"
       /\ \A i \in DOMAIN users : <<users[i].api_key>> = resp.key =>
             resp.status # 401 /\ resp.user = i

\* C3, amended: a protected request is answered 401 "Missing API key" when
\* it carries no header or an empty one, 401 "Invalid API key" when it
\* carries a non-empty one that is the api_key of no account, and runs as
\* the account whose api_key it is otherwise; a 401 carries no Todo and
\* leaves both tables as they were.
C3_Unauthenticated ==
    [][ resp'.op \in Protected =>
        /\ resp'.key \in {<< >>, <<"">>} =>
              resp'.status = 401 /\ resp'.detail = "Missing API key"
        /\ ( /\ resp'.key \notin {<< >>, <<"">>}
             /\ \A i \in DOMAIN users : <<users[i].api_key>> # resp'.key ) =>
              resp'.status = 401 /\ resp'.detail = "Invalid API key"
        /\ \A i \in DOMAIN users : <<users[i].api_key>> = resp'.key =>
              resp'.status # 401 /\ resp'.user = i
        /\ resp'.status = 401 =>
              /\ resp' = Response([op |-> resp'.op, status |-> 401,
                                   detail |-> resp'.detail, key |-> resp'.key])
              /\ todos' = todos
              /\ users' = users ]_vars

\* A request with an empty X-API-Key header refused as one without a key,
\* with Todos in the store.
C3_Witness ==
    /\ resp.op \in Protected /\ resp.status = 401
    /\ resp.key = <<"">> /\ resp.detail = "Missing API key"
    /\ todos # << >>

\* C4: a register request for a name that has an account is answered 200
\* with that account's name and api_key and changes neither table; every 200
\* of register carries the api_key of the one account of that name; and no
\* row of the user table ever changes, so that api_key is the same each time.
C4_RegisterIdempotent ==
    [][ /\ resp'.op = "register" =>
            /\ \A i \in DOMAIN users : users[i].username = resp'.username =>
                  /\ resp'.status = 200
                  /\ resp'.account = <<users[i].username, users[i].api_key>>
                  /\ users' = users
                  /\ todos' = todos
            /\ resp'.status = 200 =>
                  /\ Cardinality({i \in DOMAIN users' :
                                    users'[i].username = resp'.username}) = 1
                  /\ \E i \in DOMAIN users' :
                        resp'.account = <<resp'.username, users'[i].api_key>>
        /\ \A i \in DOMAIN users : i \in DOMAIN users' /\ users'[i] = users[i] ]_vars

\* A register request answered from the stored row (nothing inserted) when
\* two accounts and a Todo exist.
C4_Witness ==
    /\ resp.op = "register" /\ resp.status = 200 /\ resp.user = 0
    /\ Len(users) = 2
    /\ todos # << >>

\* C5: in every reachable state, whatever the interleaving of register
\* requests, no two accounts have the same username and no two have the
\* same api_key.
C5_AccountsUnique ==
    \A i, j \in DOMAIN users :
        i # j => /\ users[i].username # users[j].username
                 /\ users[i].api_key # users[j].api_key

\* A register request that found no account of its name, lost the race to
\* another one of the same name, and was refused by the constraint.
C5_Witness ==
    /\ resp.op = "register" /\ resp.status = 500
    /\ \E i \in DOMAIN users : users[i].username = resp.username

\* C6 as stated, for requests that overlap or not: an update answered 200
\* for a Todo of the caller leaves the row with each supplied field at the
\* supplied value ("" and false included) and each omitted field, the id and
\* the user_id as they were, and changes no other row of either table.
C6_UpdateSetsSupplied ==
    [][ ( /\ resp'.op = "update" /\ resp'.status = 200
          /\ resp'.id \in DOMAIN todos
          /\ todos[resp'.id].user_id = resp'.user )
        => LET id == resp'.id
               req == resp'.req
           IN  /\ DOMAIN todos' = DOMAIN todos
               /\ todos'[id].title =
                     IF req.title # << >> THEN req.title[1] ELSE todos[id].title
               /\ todos'[id].done =
                     IF req.done # << >> THEN req.done[1] ELSE todos[id].done
               /\ todos'[id].user_id = todos[id].user_id
               /\ \A j \in DOMAIN todos \ {id} : todos'[j] = todos[j]
               /\ users' = users ]_vars

\* C8: a create request answered 201 for caller A adds exactly one row,
\* with the supplied title, done false and user_id A, under an id no row had
\* before; the answer carries that row, A's next list has it, and every
\* other row of either table is as it was.
C8_CreateAddsOne ==
    [][ (resp'.op = "create" /\ resp'.status = 201) =>
        LET id == resp'.id
            row == [id |-> id, title |-> resp'.req.title[1],
                    done |-> FALSE, user_id |-> resp'.user]
        IN  /\ resp'.user \in DOMAIN users
            /\ <<users[resp'.user].api_key>> = resp'.key
            /\ id \notin DOMAIN todos
            /\ DOMAIN todos' = DOMAIN todos \cup {id}
            /\ todos'[id] = [title |-> row.title, done |-> FALSE,
                             user_id |-> row.user_id]
            /\ \A j \in DOMAIN todos : todos'[j] = todos[j]
            /\ resp'.rows = {row}
            /\ \E user_id \in DOMAIN users :
                  user_id = resp'.user /\ row \in ListRows(user_id)'
            /\ users' = users ]_vars

\* A create answered 201 with the empty title while another account's Todo
\* is in the store.
C8_Witness ==
    /\ resp.op = "create" /\ resp.status = 201
    /\ resp.req.title = <<"">>
    /\ \E id \in DOMAIN todos : todos[id].user_id # resp.user

\* C7: the answer of /stats and of /stats-pandas for caller A has total =
\* the number of A's Todos, done = the number of them with done true,
\* not_done = the number with done false, so total = done + not_done; all
\* three are 0 when A has no Todo.
C7_StatsCount ==
    (resp.op \in {"stats", "stats_pandas"} /\ resp.status = 200) =>
       LET mine == OwnedBy(resp.user)
       IN  /\ <<users[resp.user].api_key>> = resp.key
           /\ resp.stats.total = Cardinality(mine)
           /\ resp.stats.done = Cardinality({id \in mine : todos[id].done})
           /\ resp.stats.not_done = Cardinality({id \in mine : ~todos[id].done})
           /\ resp.stats.total = resp.stats.done + resp.stats.not_done
           /\ mine = {} => resp.stats = [total |-> 0, done |-> 0, not_done |-> 0]

\* /stats-pandas answered for a caller with one Todo, done, while another
\* account's Todo is in the store.
C7_Witness ==
    /\ resp.op = "stats_pandas" /\ resp.status = 200
    /\ resp.stats = [total |-> 1, done |-> 1, not_done |-> 0]
    /\ Cardinality(DOMAIN todos) = 2

\* C9: a delete answered 204 leaves no row under the id, so neither the
\* owner's list, export nor counts have it; and no later step brings a row
\* back: an id enters the table only as the fresh row (done false) of a
\* create answered 201, never through an update, including one that read
\* the row before the delete and commits after it.
C9_DeleteIsPermanent ==
    [][ /\ (resp'.op = "delete" /\ resp'.status = 204) =>
              /\ resp'.id \notin DOMAIN todos'
              /\ \E user_id \in DOMAIN users :
                    /\ user_id = resp'.user
                    /\ \A r \in ListRows(user_id)' \cup CsvRows(user_id)' :
                          r.id # resp'.id
                    /\ compute_stats_for_user(user_id)'.total
                          = Cardinality({id \in DOMAIN todos \ {resp'.id} :
                                           todos[id].user_id = user_id})
        /\ \A id \in DOMAIN todos' \ DOMAIN todos :
              /\ resp'.op = "create" /\ resp'.status = 201 /\ resp'.id = id
              /\ todos'[id] = [title |-> resp'.req.title[1], done |-> FALSE,
                               user_id |-> resp'.user]
        /\ resp'.op = "update" => DOMAIN todos' = DOMAIN todos ]_vars

\* An update that read its Todo, was overtaken by the delete of that Todo,
\* then committed: answered 500, the row still absent.
C9_Witness ==
    /\ resp.op = "update" /\ resp.status = 500
    /\ resp.id \notin DOMAIN todos

\* C10 as stated: when an update that has read its Todo commits right
\* after another update of the same Todo by the same account was answered
\* 200, it is answered 200 too and every field both requests supply has
\* the value of the one that commits last.
C10_LastCommitWins ==
    [][ \A w \in Workers :
          ( /\ workers[w].pc = "update" /\ workers'[w].pc = "idle"
            /\ resp.op = "update" /\ resp.status = 200
            /\ resp.id = workers[w].id /\ resp.user = workers[w].user
            /\ workers[w].id \in DOMAIN todos
            /\ todos[workers[w].id].user_id = workers[w].user )
          => LET id == workers[w].id
                 last == workers[w].req
             IN  /\ resp'.op = "update" /\ resp'.status = 200
                 /\ id \in DOMAIN todos'
                 /\ (last.title # << >> /\ resp.req.title # << >>) =>
                       todos'[id].title = last.title[1]
                 /\ (last.done # << >> /\ resp.req.done # << >>) =>
                       todos'[id].done = last.done[1] ]_vars

=============================================================================
